---- MODULE Spec2Model ----
(***************************************************************************)
(* The LINE webhook stock bot of src/app.py.                               *)
(*                                                                         *)
(* A text is a sequence of characters.  An ASCII character is the          *)
(* one-character string itself; any other code point is the string "uXXXX" *)
(* of its hexadecimal number, so that Len counts Python characters.        *)
(* Prices are integers in hundredths (cents), percentages in hundredths of *)
(* a percent.  A date is <<year, month, day>>; NaT is <<0, 0, 0>>.         *)
(***************************************************************************)
EXTENDS Integers, Sequences, FiniteSets, TLC

VARIABLES stock_data, pc, event, reply_text, df_filtered, period_text,
          caught, escaped, sent, calls, figs, static

vars == <<stock_data, pc, event, reply_text, df_filtered, period_text,
          caught, escaped, sent, calls, figs, static>>

----------------------------------------------------------------------------
(* Python str / int primitives *)

Min(S) == CHOOSE x \in S : \A y \in S : x <= y

Max(S) == CHOOSE x \in S : \A y \in S : x >= y

\* the k-th smallest element of a finite set of integers
Nth(S, k) == CHOOSE i \in S : Cardinality({j \in S : j < i}) = k - 1

DigitChars == <<"0", "1", "2", "3", "4", "5", "6", "7", "8", "9">>

IsDigit(c) == \E i \in 1..10 : DigitChars[i] = c

DigitVal(c) == (CHOOSE i \in 1..10 : DigitChars[i] = c) - 1

\* str.split() with no argument: the characters Python treats as white space
\* that the model's texts use (U+3000 is white space for str.split/strip)
Ws == {" ", "u3000", "\t", "\n"}

\* s.split(): the maximal runs of non-white-space characters, in order
Words(s) ==
    LET n == Len(s)
        seps == {j \in 1..n : s[j] \in Ws} \cup {0, n + 1}
        starts == {i \in 1..n : s[i] \notin Ws /\ (i - 1) \in seps}
        EndOf(i) == Min({p \in seps : p > i}) - 1
    IN  [k \in 1..Cardinality(starts) |->
            SubSeq(s, Nth(starts, k), EndOf(Nth(starts, k)))]

\* s.split(sep) for a one-character separator: every field, empty ones too
Split(s, sep) ==
    LET n == Len(s)
        cuts == {j \in 1..n : s[j] = sep} \cup {0, n + 1}
    IN  [k \in 1..(Cardinality(cuts) - 1) |->
            SubSeq(s, Nth(cuts, k) + 1, Nth(cuts, k + 1) - 1)]

RECURSIVE Join(_, _)
\* sep.join(parts)
Join(parts, sep) ==
    IF Len(parts) = 0 THEN <<>>
    ELSE IF Len(parts) = 1 THEN parts[1]
    ELSE parts[1] \o sep \o Join(Tail(parts), sep)

\* s.startswith(prefix)
StartsWith(s, prefix) ==
    Len(s) >= Len(prefix) /\ SubSeq(s, 1, Len(prefix)) = prefix

\* sub in s
Contains(s, sub) ==
    \E i \in 0..(Len(s) - Len(sub)) : SubSeq(s, i + 1, i + Len(sub)) = sub

\* s.replace(old, new) for one-character old and new
Replace(s, old, new) == [i \in 1..Len(s) |-> IF s[i] = old THEN new ELSE s[i]]

RECURSIVE Str(_)
\* str(n) for n >= 0
Str(n) == IF n < 10 THEN <<DigitChars[n + 1]>>
          ELSE Str(n \div 10) \o <<DigitChars[(n % 10) + 1]>>

RECURSIVE DigitsValue(_)
DigitsValue(s) ==
    IF Len(s) = 0 THEN 0
    ELSE 10 * DigitsValue(SubSeq(s, 1, Len(s) - 1)) + DigitVal(s[Len(s)])

AllDigits(s) == Len(s) > 0 /\ \A i \in 1..Len(s) : IsDigit(s[i])

\* int(s): [ok |-> TRUE, v |-> value], or ok = FALSE for ValueError.  Exact on
\* texts of digits, letters and '/', the alphabet of the model's date tokens.
PyInt(s) ==
    IF AllDigits(s) THEN [ok |-> TRUE, v |-> DigitsValue(s)]
    ELSE [ok |-> FALSE, v |-> 0]

\* s.zfill(width) for s without a sign
Zfill(s, width) ==
    IF Len(s) >= width THEN s
    ELSE [i \in 1..(width - Len(s)) |-> "0"] \o s

\* format(n, "0<width>d") for n >= 0
PadInt(n, width) == Zfill(Str(n), width)

\* f"{x:.2f}" of the value c/100, c an integer
Fmt2(c) ==
    LET a == IF c < 0 THEN -c ELSE c
    IN  (IF c < 0 THEN <<"-">> ELSE <<>>)
            \o Str(a \div 100) \o <<".">> \o PadInt(a % 100, 2)

RECURSIVE Thousands(_)
\* f"{n:,}" for n >= 0
Thousands(n) ==
    IF n < 1000 THEN Str(n)
    ELSE Thousands(n \div 1000) \o <<",">> \o PadInt(n % 1000, 3)

\* repr of a list of str (no quote characters inside): "['a', 'b']"
ListRepr(parts) ==
    <<"[">> \o Join([i \in 1..Len(parts) |-> <<"'">> \o parts[i] \o <<"'">>],
                    <<",", " ">>) \o <<"]">>

----------------------------------------------------------------------------
(* the literal texts of src/app.py *)

\* app.py:171  "查詢"
CmdQuery ==
    <<"u67E5", "u8A62">>

\* app.py:192  "查圖"
CmdChart ==
    <<"u67E5", "u5716">>

\* app.py:63  "⚠️"
MarkWarn ==
    <<"u26A0", "uFE0F">>

\* app.py:190  "❗"
MarkBang ==
    <<"u2757">>

\* app.py:69  "❌"
MarkCross ==
    <<"u274C">>

\* app.py:63  "⚠️ 股票代碼錯誤："
TxtSymbolError ==
    <<"u26A0", "uFE0F", " ", "u80A1", "u7968", "u4EE3", "u78BC", "u932F",
      "u8AA4", "uFF1A">>

\* app.py:69  "❌ 找不到 "
TxtNoFileA ==
    <<"u274C", " ", "u627E", "u4E0D", "u5230", " ">>

\* app.py:69  " 的資料"
TxtNoFileB ==
    <<" ", "u7684", "u8CC7", "u6599">>

\* app.py:82  "❌ 讀取股票資料時發生錯誤"
TxtReadError ==
    <<"u274C", " ", "u8B80", "u53D6", "u80A1", "u7968", "u8CC7", "u6599",
      "u6642", "u767C", "u751F", "u932F", "u8AA4">>

\* app.py:93  "⚠️ "
TxtWarnSp ==
    <<"u26A0", "uFE0F", " ">>

\* app.py:93  " 在 "
TxtAt ==
    <<" ", "u5728", " ">>

\* app.py:93  " 沒有資料"
TxtNoData ==
    <<" ", "u6C92", "u6709", "u8CC7", "u6599">>

\* app.py:97  "📊 "
TxtYearHead ==
    <<"u1F4CA", " ">>

\* app.py:111  "📈 "
TxtMonthHead ==
    <<"u1F4C8", " ">>

\* app.py:97  "：\n平均收盤價："
TxtAvgClose ==
    <<"uFF1A", "\n", "u5E73", "u5747", "u6536", "u76E4", "u50F9", "uFF1A">>

\* app.py:97  " 元\n平均日漲幅："
TxtAvgChange ==
    <<" ", "u5143", "\n", "u5E73", "u5747", "u65E5", "u6F32", "u5E45",
      "uFF1A">>

\* app.py:123  " 沒有資料（可能是假日或停市）"
TxtNoDataDay ==
    <<" ", "u6C92", "u6709", "u8CC7", "u6599", "uFF08", "u53EF", "u80FD",
      "u662F", "u5047", "u65E5", "u6216", "u505C", "u5E02", "uFF09">>

\* app.py:127  "📅 "
TxtDayHead ==
    <<"u1F4C5", " ">>

\* app.py:127  " 的資料如下：\n"
TxtDayIntro ==
    <<" ", "u7684", "u8CC7", "u6599", "u5982", "u4E0B", "uFF1A", "\n">>

\* app.py:128  "開盤："
TxtOpen ==
    <<"u958B", "u76E4", "uFF1A">>

\* app.py:129  "最高："
TxtHigh ==
    <<"u6700", "u9AD8", "uFF1A">>

\* app.py:130  "最低："
TxtLow ==
    <<"u6700", "u4F4E", "uFF1A">>

\* app.py:131  "收盤："
TxtClose ==
    <<"u6536", "u76E4", "uFF1A">>

\* app.py:128  " 元\n"
TxtYuanNl ==
    <<" ", "u5143", "\n">>

\* app.py:132  "成交量："
TxtVolume ==
    <<"u6210", "u4EA4", "u91CF", "uFF1A">>

\* app.py:132  " 股\n"
TxtSharesNl ==
    <<" ", "u80A1", "\n">>

\* app.py:133  "漲幅："
TxtChange ==
    <<"u6F32", "u5E45", "uFF1A">>

\* app.py:187  "⚠️ 請輸入正確格式：查詢 股票代碼 年 或 年/月 或 年/月/日"
TxtQueryFormat ==
    <<"u26A0", "uFE0F", " ", "u8ACB", "u8F38", "u5165", "u6B63", "u78BA",
      "u683C", "u5F0F", "uFF1A", "u67E5", "u8A62", " ", "u80A1", "u7968",
      "u4EE3", "u78BC", " ", "u5E74", " ", "u6216", " ", "u5E74", "/",
      "u6708", " ", "u6216", " ", "u5E74", "/", "u6708", "/", "u65E5">>

\* app.py:190  "❗請輸入格式：查詢 股票代碼 年 或 年/月 或 年/月/日"
TxtQueryError ==
    <<"u2757", "u8ACB", "u8F38", "u5165", "u683C", "u5F0F", "uFF1A", "u67E5",
      "u8A62", " ", "u80A1", "u7968", "u4EE3", "u78BC", " ", "u5E74", " ",
      "u6216", " ", "u5E74", "/", "u6708", " ", "u6216", " ", "u5E74", "/",
      "u6708", "/", "u65E5">>

\* app.py:211  "⚠️ 查圖格式錯誤，請輸入：查圖 股票代碼 年 或 年/月"
TxtChartFormat ==
    <<"u26A0", "uFE0F", " ", "u67E5", "u5716", "u683C", "u5F0F", "u932F",
      "u8AA4", "uFF0C", "u8ACB", "u8F38", "u5165", "uFF1A", "u67E5", "u5716",
      " ", "u80A1", "u7968", "u4EE3", "u78BC", " ", "u5E74", " ", "u6216",
      " ", "u5E74", "/", "u6708">>

\* app.py:224  "📊 "
TxtChartHead ==
    <<"u1F4CA", " ">>

\* app.py:224  " 收盤價走勢圖如下："
TxtChartTail ==
    <<" ", "u6536", "u76E4", "u50F9", "u8D70", "u52E2", "u5716", "u5982",
      "u4E0B", "uFF1A">>

\* app.py:238  "❌ 產生圖表時發生錯誤"
TxtChartError ==
    <<"u274C", " ", "u7522", "u751F", "u5716", "u8868", "u6642", "u767C",
      "u751F", "u932F", "u8AA4">>

\* app.py:241  "你說的是："
TxtEcho ==
    <<"u4F60", "u8AAA", "u7684", "u662F", "uFF1A">>

\* app.py:142  " 收盤價走勢"
TxtTitleTail ==
    <<" ", "u6536", "u76E4", "u50F9", "u8D70", "u52E2">>

\* app.py:149  "static/"
TxtStaticDir ==
    <<"s", "t", "a", "t", "i", "c", "/">>

\* app.py:149  ".png"
TxtPng ==
    <<".", "p", "n", "g">>

----------------------------------------------------------------------------
(* pandas: dates, the CSV reader, means *)

NaT == <<0, 0, 0>>

IsLeap(y) == (y % 4 = 0 /\ y % 100 # 0) \/ y % 400 = 0

DaysIn(y, m) ==
    IF m = 2 THEN (IF IsLeap(y) THEN 29 ELSE 28)
    ELSE IF m \in {4, 6, 9, 11} THEN 30 ELSE 31

\* a calendar date inside the range of pandas.Timestamp
ValidDate(y, m, d) ==
    y \in 1678..2261 /\ m \in 1..12 /\ d >= 1 /\ d <= DaysIn(y, m)

\* an ISO text YYYY-MM-DD: three all-digit fields of 4, 2 and 2 characters
IsIsoShape(p) ==
    /\ Len(p) = 3
    /\ \A i \in 1..3 : AllDigits(p[i])
    /\ Len(p[1]) = 4 /\ Len(p[2]) = 2 /\ Len(p[3]) = 2

\* pd.to_datetime(cell, format="%Y-%m-%d", errors="coerce") of one Date cell
ParseDateCell(s) ==
    LET p == Split(s, "-")
    IN  IF IsIsoShape(p)
            /\ ValidDate(DigitsValue(p[1]), DigitsValue(p[2]), DigitsValue(p[3]))
        THEN <<DigitsValue(p[1]), DigitsValue(p[2]), DigitsValue(p[3])>>
        ELSE NaT

\* str(timestamp.date())
DateStr(d) == PadInt(d[1], 4) \o <<"-">> \o PadInt(d[2], 2) \o <<"-">> \o PadInt(d[3], 2)

\* the dates a lenient (non-ISO) parse may produce in the model
LenientDates == {<<2023, 7, 3>>, <<2023, 3, 7>>, <<2003, 7, 23>>}

\* a character that is neither a digit nor the '-' between the fields
HasLetter(s) == \E i \in 1..Len(s) : ~IsDigit(s[i]) /\ s[i] # "-"

\* pd.to_datetime(s) of one text: the set of outcomes [ok, date]; ok = FALSE is
\* a raised exception.  An ISO-shaped text parses exactly or raises, and a text
\* with a letter that is no date word raises; for any other text of digits the
\* parser's fallback is left open: it raises or yields some date.
to_datetime(s) ==
    LET p == Split(s, "-")
    IN  IF IsIsoShape(p)
        THEN IF ValidDate(DigitsValue(p[1]), DigitsValue(p[2]), DigitsValue(p[3]))
             THEN {[ok |-> TRUE,
                    date |-> <<DigitsValue(p[1]), DigitsValue(p[2]), DigitsValue(p[3])>>]}
             ELSE {[ok |-> FALSE, date |-> NaT]}
        ELSE IF HasLetter(s) THEN {[ok |-> FALSE, date |-> NaT]}
        ELSE {[ok |-> FALSE, date |-> NaT]}
                \cup {[ok |-> TRUE, date |-> d] : d \in LenientDates}

RECURSIVE SumOf(_)
SumOf(xs) == IF Len(xs) = 0 THEN 0 ELSE xs[1] + SumOf(Tail(xs))

Abs(x) == IF x < 0 THEN -x ELSE x

\* f"{Series.mean():.2f}" of the values xs/100 (xs non-empty): the hundredths
\* nearest to the mean.  The mean is a binary float, so an exact decimal tie
\* may print as either neighbour.
MeanFmt(xs) ==
    LET s == SumOf(xs)
        n == Len(xs)
        lo == s \div n
    IN  {c \in {lo, lo + 1} : 2 * Abs(c * n - s) <= n}

Column(rows, Field(_)) == [i \in 1..Len(rows) |-> Field(rows[i])]

\* app.py:21-32
SymbolTable == <<
    << <<"2", "3", "3", "0">>, "TSM_TSMC.csv" >>,
    << <<"2", "3", "1", "7">>, "HNHPF_Hon Hai.csv" >>,
    << <<"2", "4", "5", "4">>, "2454.TW_MediaTek.csv" >>,
    << <<"2", "3", "0", "3">>, "2303.TW_UMC.csv" >>,
    << <<"2", "3", "7", "9">>, "2379.TW_Realtek.csv" >>,
    << <<"2", "4", "1", "2">>, "CHT_Chunghwa Telecom.csv" >>,
    << <<"3", "0", "0", "8">>, "3008.TW_Largan.csv" >>,
    << <<"2", "3", "8", "2">>, "2382.TW_Quanta.csv" >>,
    << <<"2", "3", "0", "1">>, "2301.TW_Lite-On.csv" >>,
    << <<"6", "6", "6", "9">>, "6669.TWO_WiWynn.csv" >> >>

SymbolKeys == {SymbolTable[i][1] : i \in 1..Len(SymbolTable)}

FileNames == {SymbolTable[i][2] : i \in 1..Len(SymbolTable)}

\* symbol_map[key]
symbol_map(key) ==
    SymbolTable[CHOOSE i \in 1..Len(SymbolTable) : SymbolTable[i][1] = key][2]

EmptyDf == [close_dtype |-> "float64", rows |-> <<>>]

\* read_csv(skiprows=3, names=[...]); Date parsed with errors="coerce";
\* dropna(subset=["Date"])
ReadCsv(f) ==
    LET body == SubSeq(f.lines, 4, Len(f.lines))
        parsed == [i \in 1..Len(body) |->
                      [body[i] EXCEPT !.Date = ParseDateCell(body[i].Date)]]
        HasDate(r) == r.Date # NaT
    IN  [close_dtype |-> f.close_dtype, rows |-> SelectSeq(parsed, HasDate)]

\* load_stock_data(symbol_code): (df, err), err = <<>> standing for None
load_stock_data(symbol_code) ==
    IF symbol_code \notin SymbolKeys
    THEN [df |-> EmptyDf, err |-> TxtSymbolError \o symbol_code]
    ELSE LET f == stock_data[symbol_map(symbol_code)]
         IN  IF ~f.exists
             THEN [df |-> EmptyDf, err |-> TxtNoFileA \o symbol_code \o TxtNoFileB]
             ELSE IF ~f.readable
             THEN [df |-> EmptyDf, err |-> TxtReadError]
             ELSE [df |-> ReadCsv(f), err |-> <<>>]

----------------------------------------------------------------------------
(* the query functions: each yields the set of its possible outcomes,       *)
(* [exc |-> "" , text |-> the returned str] or [exc |-> the exception]      *)

Ret(text) == [exc |-> "", text |-> text]

Raise(name) == [exc |-> name, text |-> <<>>]

CloseOf(r) == r.Close

ChangeOf(r) == r.Change

\* app.py:86-97
get_stock_info_year(symbol_code, year) ==
    LET l == load_stock_data(symbol_code)
        InYear(r) == r.Date[1] = PyInt(year).v
        df_year == SelectSeq(l.df.rows, InYear)
    IN  IF l.err # <<>> THEN {Ret(l.err)}
        ELSE IF ~PyInt(year).ok THEN {Raise("ValueError")}
        ELSE IF Len(df_year) = 0
        THEN {Ret(TxtWarnSp \o symbol_code \o TxtAt \o year \o TxtNoData)}
        ELSE IF l.df.close_dtype # "float64" THEN {Raise("TypeError")}
        ELSE {Ret(TxtYearHead \o symbol_code \o TxtAt \o year
                    \o TxtAvgClose \o Fmt2(avg_close)
                    \o TxtAvgChange \o Fmt2(avg_change) \o <<"%">>) :
                avg_close \in MeanFmt(Column(df_year, CloseOf)),
                avg_change \in MeanFmt(Column(df_year, ChangeOf))}

\* get_stock_info_month with the year test of the filter left out
get_stock_info_month_IgnoresYear(symbol_code, year, month) ==
    LET l == load_stock_data(symbol_code)
        InMonth(r) == r.Date[2] = PyInt(month).v
        df_month == SelectSeq(l.df.rows, InMonth)
    IN  IF l.err # <<>> THEN {Ret(l.err)}
        ELSE IF ~PyInt(year).ok \/ ~PyInt(month).ok THEN {Raise("ValueError")}
        ELSE IF Len(df_month) = 0
        THEN {Ret(TxtWarnSp \o symbol_code \o TxtAt \o year \o <<"/">> \o month
                    \o TxtNoData)}
        ELSE IF l.df.close_dtype # "float64" THEN {Raise("TypeError")}
        ELSE {Ret(TxtMonthHead \o symbol_code \o TxtAt \o year \o <<"/">> \o month
                    \o TxtAvgClose \o Fmt2(avg_close)
                    \o TxtAvgChange \o Fmt2(avg_change) \o <<"%">>) :
                avg_close \in MeanFmt(Column(df_month, CloseOf)),
                avg_change \in MeanFmt(Column(df_month, ChangeOf))}

\* app.py:100-111
get_stock_info_month(symbol_code, year, month) ==
    LET l == load_stock_data(symbol_code)
        InMonth(r) == r.Date[1] = PyInt(year).v /\ r.Date[2] = PyInt(month).v
        df_month == SelectSeq(l.df.rows, InMonth)
    IN  IF l.err # <<>> THEN {Ret(l.err)}
        ELSE IF ~PyInt(year).ok \/ ~PyInt(month).ok THEN {Raise("ValueError")}
        ELSE IF Len(df_month) = 0
        THEN {Ret(TxtWarnSp \o symbol_code \o TxtAt \o year \o <<"/">> \o month
                    \o TxtNoData)}
        ELSE IF l.df.close_dtype # "float64" THEN {Raise("TypeError")}
        ELSE {Ret(TxtMonthHead \o symbol_code \o TxtAt \o year \o <<"/">> \o month
                    \o TxtAvgClose \o Fmt2(avg_close)
                    \o TxtAvgChange \o Fmt2(avg_change) \o <<"%">>) :
                avg_close \in MeanFmt(Column(df_month, CloseOf)),
                avg_change \in MeanFmt(Column(df_month, ChangeOf))}

\* app.py:125-134: the reply text of one row, or the exception of formatting it
\* (a Close of an object column is a str: format code 'f' raises ValueError;
\* int() of a missing Volume, a float NaN, raises ValueError)
DayText(symbol_code, target_date, close_dtype, row) ==
    IF close_dtype # "float64" THEN Raise("ValueError")
    ELSE IF Len(row.Volume) = 0 THEN Raise("ValueError")
    ELSE Ret(TxtDayHead \o symbol_code \o TxtAt \o DateStr(target_date) \o TxtDayIntro
             \o TxtOpen \o Fmt2(row.Open) \o TxtYuanNl
             \o TxtHigh \o Fmt2(row.High) \o TxtYuanNl
             \o TxtLow \o Fmt2(row.Low) \o TxtYuanNl
             \o TxtClose \o Fmt2(row.Close) \o TxtYuanNl
             \o TxtVolume \o Thousands(row.Volume[1]) \o TxtSharesNl
             \o TxtChange \o Fmt2(row.Change) \o <<"%">>)

Before(a, b) ==
    \/ a[1] < b[1]
    \/ a[1] = b[1] /\ a[2] < b[2]
    \/ a[1] = b[1] /\ a[2] = b[2] /\ a[3] <= b[3]

\* the on-or-before policy: the rows of the latest date not after the target
SelectDay_OnOrBefore(rows, target_date) ==
    LET NotAfter(r) == Before(r.Date, target_date)
        prior == SelectSeq(rows, NotAfter)
        Latest(r) == \A i \in 1..Len(prior) : Before(prior[i].Date, r.Date)
    IN  SelectSeq(prior, Latest)

\* app.py:119-123: the rows of the target date
SelectDay(rows, target_date) ==
    LET OnDay(r) == r.Date = target_date
    IN  SelectSeq(rows, OnDay)

\* app.py:114-134
get_stock_info_day(symbol_code, year, month, day) ==
    LET l == load_stock_data(symbol_code)
    IN  IF l.err # <<>> THEN {Ret(l.err)}
        ELSE {IF ~t.ok THEN Raise("ValueError")
              ELSE LET df_day == SelectDay(l.df.rows, t.date)
                   IN  IF Len(df_day) = 0
                       THEN Ret(TxtWarnSp \o symbol_code \o TxtAt \o DateStr(t.date)
                                \o TxtNoDataDay)
                       ELSE DayText(symbol_code, t.date, l.df.close_dtype, df_day[1]) :
              t \in to_datetime(year \o <<"-">> \o Zfill(month, 2)
                                \o <<"-">> \o Zfill(day, 2))}

----------------------------------------------------------------------------
(* handle_message *)

\* reply_text = None (app.py:169)
None == <<"None">>

Reqs == {1, 2}

\* app.py:164-166: strip, full-width space to space, " ".join(msg.split())
Normalize(text) == Join(Words(Replace(text, "u3000", " ")), <<" ">>)

Msg(r) == Normalize(event[r])

\* what a branch of handle_message leaves behind
Outcome(text, exc_caught, exc_escaped, plot, df, period) ==
    [reply_text |-> text, caught |-> exc_caught, escaped |-> exc_escaped,
     plot |-> plot, df_filtered |-> df, period_text |-> period]

TextOutcome(text) == Outcome(text, "", "", FALSE, <<>>, <<>>)

\* the query branch without its except clause: the exception leaves the handler
QueryExcept_Propagate(exc) == Outcome(None, "", exc, FALSE, <<>>, <<>>)

\* app.py:188-190: except Exception in the query branch
QueryExcept(exc) == Outcome(TxtQueryError, exc, "", FALSE, <<>>, <<>>)

\* app.py:236-238: except Exception in the chart branch
ChartExcept(exc) == Outcome(TxtChartError, exc, "", FALSE, <<>>, <<>>)

\* app.py:172-190
QueryBranch(msg) ==
    LET parts == Words(msg)
    IN  IF Len(parts) < 3 THEN {QueryExcept("IndexError")}
        ELSE LET symbol == parts[2]
                 date_parts == Split(parts[3], "/")
                 results ==
                     IF Len(date_parts) = 1
                     THEN get_stock_info_year(symbol, date_parts[1])
                     ELSE IF Len(date_parts) = 2
                     THEN get_stock_info_month(symbol, date_parts[1], date_parts[2])
                     ELSE IF Len(date_parts) = 3
                     THEN get_stock_info_day(symbol, date_parts[1], date_parts[2],
                                             date_parts[3])
                     ELSE {Ret(TxtQueryFormat)}
             IN  {IF o.exc = "" THEN TextOutcome(o.text) ELSE QueryExcept(o.exc) :
                     o \in results}

\* app.py:202-212: [exc, reply_text, has_df, df_filtered, period_text] after the
\* if / elif / else on len(date_parts); has_df = FALSE is df_filtered = None
ChartSelect(df, date_parts) ==
    IF Len(date_parts) = 1
    THEN LET year == PyInt(date_parts[1])
             InYear(r) == r.Date[1] = year.v
         IN  IF ~year.ok
             THEN [exc |-> "ValueError", reply_text |-> None, has_df |-> FALSE,
                   df_filtered |-> <<>>, period_text |-> <<>>]
             ELSE [exc |-> "", reply_text |-> None, has_df |-> TRUE,
                   df_filtered |-> SelectSeq(df.rows, InYear),
                   period_text |-> Str(year.v)]
    ELSE IF Len(date_parts) = 2
    THEN LET year == PyInt(date_parts[1])
             month == PyInt(date_parts[2])
             InMonth(r) == r.Date[1] = year.v /\ r.Date[2] = month.v
         IN  IF ~year.ok \/ ~month.ok
             THEN [exc |-> "ValueError", reply_text |-> None, has_df |-> FALSE,
                   df_filtered |-> <<>>, period_text |-> <<>>]
             ELSE [exc |-> "", reply_text |-> None, has_df |-> TRUE,
                   df_filtered |-> SelectSeq(df.rows, InMonth),
                   period_text |-> Str(year.v) \o <<"_">> \o Str(month.v)]
    ELSE [exc |-> "", reply_text |-> TxtChartFormat, has_df |-> FALSE,
          df_filtered |-> <<>>, period_text |-> <<>>]

\* app.py:193-238, up to the call of plot_stock_chart
ChartBranch(msg) ==
    LET parts == Words(msg)
    IN  IF Len(parts) < 3 THEN ChartExcept("IndexError")
        ELSE LET symbol == parts[2]
                 date_parts == Split(parts[3], "/")
                 l == load_stock_data(symbol)
                 sel == ChartSelect(l.df, date_parts)
             IN  IF l.err # <<>> THEN TextOutcome(l.err)
                 ELSE IF sel.exc # "" THEN ChartExcept(sel.exc)
                 ELSE IF sel.has_df /\ Len(sel.df_filtered) > 0
                 THEN Outcome(sel.reply_text, "", "", TRUE, sel.df_filtered,
                              sel.period_text)
                 ELSE TextOutcome(TxtWarnSp \o symbol \o TxtAt
                                  \o ListRepr(date_parts) \o TxtNoData)

\* app.py:240-241
EchoBranch(msg) == TextOutcome(TxtEcho \o msg)

Symbol(r) == Words(Msg(r))[2]

\* app.py:149
ImgPath(symbol_code, period) ==
    TxtStaticDir \o symbol_code \o <<"_">> \o period \o TxtPng

\* app.py:224
ImageText(symbol, period) ==
    TxtChartHead \o symbol \o <<" ">> \o Replace(period, "_", "/") \o TxtChartTail

Leave(r, o) ==
    /\ reply_text' = [reply_text EXCEPT ![r] = o.reply_text]
    /\ caught' = [caught EXCEPT ![r] = o.caught]
    /\ escaped' = [escaped EXCEPT ![r] = o.escaped]
    /\ df_filtered' = [df_filtered EXCEPT ![r] = o.df_filtered]
    /\ period_text' = [period_text EXCEPT ![r] = o.period_text]
    /\ pc' = [pc EXCEPT ![r] = IF o.escaped # "" THEN "raised"
                               ELSE IF o.plot THEN "plt_figure"
                               ELSE "text_reply"]

\* app.py:47-57, 162-163: the webhook hands one text event to handle_message
callback(r, text) ==
    /\ pc[r] = "idle"
    /\ event' = [event EXCEPT ![r] = text]
    /\ pc' = [pc EXCEPT ![r] = "handle"]
    /\ UNCHANGED <<stock_data, reply_text, df_filtered, period_text, caught,
                   escaped, sent, calls, figs, static>>

\* app.py:171-190
HandleQuery(r) ==
    /\ pc[r] = "handle"
    /\ StartsWith(Msg(r), CmdQuery)
    /\ \E o \in QueryBranch(Msg(r)) : Leave(r, o)
    /\ UNCHANGED <<stock_data, event, sent, calls, figs, static>>

\* app.py:192-214, 234-238
HandleChart(r) ==
    /\ pc[r] = "handle"
    /\ ~StartsWith(Msg(r), CmdQuery)
    /\ StartsWith(Msg(r), CmdChart)
    /\ Leave(r, ChartBranch(Msg(r)))
    /\ UNCHANGED <<stock_data, event, sent, calls, figs, static>>

\* app.py:240-241
HandleEcho(r) ==
    /\ pc[r] = "handle"
    /\ ~StartsWith(Msg(r), CmdQuery)
    /\ ~StartsWith(Msg(r), CmdChart)
    /\ Leave(r, EchoBranch(Msg(r)))
    /\ UNCHANGED <<stock_data, event, sent, calls, figs, static>>

----------------------------------------------------------------------------
(* plot_stock_chart: pyplot keeps one process-wide ordered table of figures, *)
(* the last one being the current figure every plt.* call works on           *)

DateOf(r) == r.Date

\* the line plt.plot draws: the Date and Close columns
Series(df) == [x |-> Column(df, DateOf), y |-> Column(df, CloseOf)]

\* a new figure: its number is one more than the largest in use
NewFig(fs) ==
    [num |-> IF Len(fs) = 0 THEN 1 ELSE Max({fs[i].num : i \in 1..Len(fs)}) + 1,
     lines |-> <<>>, title |-> <<>>]

\* plt.gcf(): the current figure, made first when there is none
WithCurrent(fs) == IF Len(fs) = 0 THEN <<NewFig(fs)>> ELSE fs

\* app.py:140
PltFigure(r) ==
    /\ pc[r] = "plt_figure"
    /\ figs' = Append(figs, NewFig(figs))
    /\ pc' = [pc EXCEPT ![r] = "plt_plot"]
    /\ UNCHANGED <<stock_data, event, reply_text, df_filtered, period_text,
                   caught, escaped, sent, calls, static>>

\* app.py:141-146: plot, title, labels, grid and legend on the current figure
PltPlot(r) ==
    /\ pc[r] = "plt_plot"
    /\ LET fs == WithCurrent(figs)
           cur == fs[Len(fs)]
       IN  figs' = [fs EXCEPT ![Len(fs)] =
                       [cur EXCEPT !.lines = Append(cur.lines, Series(df_filtered[r])),
                                   !.title = Symbol(r) \o <<" ">> \o period_text[r]
                                                \o TxtTitleTail]]
    /\ pc' = [pc EXCEPT ![r] = "plt_savefig"]
    /\ UNCHANGED <<stock_data, event, reply_text, df_filtered, period_text,
                   caught, escaped, sent, calls, static>>

\* app.py:148-150: the current figure is written to static/<symbol>_<period>.png
PltSavefig(r) ==
    /\ pc[r] = "plt_savefig"
    /\ LET fs == WithCurrent(figs)
           cur == fs[Len(fs)]
           path == ImgPath(Symbol(r), period_text[r])
       IN  /\ figs' = fs
           /\ static' = {f \in static : f.path # path}
                            \cup {[path |-> path, lines |-> cur.lines,
                                   title |-> cur.title]}
    /\ pc' = [pc EXCEPT ![r] = "plt_close"]
    /\ UNCHANGED <<stock_data, event, reply_text, df_filtered, period_text,
                   caught, escaped, sent, calls>>

\* app.py:148-150 raising (the directory or the file cannot be written):
\* caught by app.py:236-238, the figure is left open
PltSavefigFails(r) ==
    /\ pc[r] = "plt_savefig"
    /\ figs' = WithCurrent(figs)
    /\ Leave(r, ChartExcept("OSError"))
    /\ UNCHANGED <<stock_data, event, sent, calls, static>>

\* app.py:151: plt.close() closes the current figure, if any
PltClose(r) ==
    /\ pc[r] = "plt_close"
    /\ figs' = IF Len(figs) = 0 THEN figs ELSE SubSeq(figs, 1, Len(figs) - 1)
    /\ pc' = [pc EXCEPT ![r] = "image_reply"]
    /\ UNCHANGED <<stock_data, event, reply_text, df_filtered, period_text,
                   caught, escaped, sent, calls, static>>

----------------------------------------------------------------------------
(* the reply API *)

\* app.py:216-233: the reply with the chart.  "ok": the call returns and the
\* handler returns; "api_error": the call is made and raises; "build_error":
\* building the request (a dict among the messages) raises before any call.
\* Both exceptions are caught by app.py:236-238.
ImageReply(r) ==
    /\ pc[r] = "image_reply"
    /\ \E result \in {"ok", "api_error", "build_error"} :
        IF result = "ok"
        THEN /\ calls' = [calls EXCEPT ![r] = @ + 1]
             /\ sent' = [sent EXCEPT ![r] =
                            Append(@, [text |-> ImageText(Symbol(r), period_text[r]),
                                       image |-> ImgPath(Symbol(r), period_text[r])])]
             /\ pc' = [pc EXCEPT ![r] = "done"]
             /\ UNCHANGED <<reply_text, caught, escaped, df_filtered, period_text>>
        ELSE /\ calls' = [calls EXCEPT ![r] = IF result = "api_error" THEN @ + 1 ELSE @]
             /\ sent' = sent
             /\ Leave(r, ChartExcept("Exception"))
    /\ UNCHANGED <<stock_data, event, figs, static>>

\* app.py:243-251: the text reply; an exception of the call leaves the handler
TextReply(r) ==
    /\ pc[r] = "text_reply"
    /\ calls' = [calls EXCEPT ![r] = @ + 1]
    /\ \E ok \in BOOLEAN :
        IF ok
        THEN /\ sent' = [sent EXCEPT ![r] =
                            Append(@, [text |-> reply_text[r], image |-> <<>>])]
             /\ pc' = [pc EXCEPT ![r] = "done"]
             /\ escaped' = escaped
        ELSE /\ sent' = sent
             /\ pc' = [pc EXCEPT ![r] = "raised"]
             /\ escaped' = [escaped EXCEPT ![r] = "ApiException"]
    /\ UNCHANGED <<stock_data, event, reply_text, df_filtered, period_text,
                   caught, figs, static>>

----------------------------------------------------------------------------
(* the data files and the messages the model runs on *)

\* longest text of an inbound message
MaxMsgLen == 5000

\* the message-size ceiling of a reply text
MaxReplyLen == 4900

\* one CSV line under the names of app.py:75.  Date is the cell's text; Volume is
\* <<v>>, or <<>> for an empty cell (read as NaN); the other cells are numbers,
\* and close_dtype of the file tells whether its Close column read as float64
\* or, holding some non-numeric text, as object
Row(date, open, high, low, close, volume, change) ==
    [Date |-> date, Open |-> open, High |-> high, Low |-> low, Close |-> close,
     Volume |-> volume, Change |-> change]

\* the three header lines the downloader's to_csv writes before the data
HeaderLines == <<
    Row(<<"P", "r", "i", "c", "e">>, 0, 0, 0, 0, <<>>, 0),
    Row(<<"T", "i", "c", "k", "e", "r">>, 0, 0, 0, 0, <<>>, 0),
    Row(<<"D", "a", "t", "e">>, 0, 0, 0, 0, <<>>, 0) >>

Cell(y, m, d) == DateStr(<<y, m, d>>)

MissingFile ==
    [exists |-> FALSE, readable |-> FALSE, close_dtype |-> "float64", lines |-> <<>>]

CsvFile(dtype, rows) ==
    [exists |-> TRUE, readable |-> TRUE, close_dtype |-> dtype,
     lines |-> HeaderLines \o rows]

RowsA == <<
    Row(Cell(2023, 7, 3), 10000, 10250, 9950, 10100, <<12345678>>, 125),
    Row(Cell(2023, 7, 4), 10100, 10300, 10050, 10200, <<987654>>, 99),
    Row(Cell(2023, 8, 1), 10200, 10200, 9900, 9999, <<1000>>, -197),
    Row(Cell(2024, 7, 2), 14900, 15100, 14800, 15000, <<2500000>>, 50) >>

\* a row without a date, a row without a volume, a month whose mean is a tie
RowsB == <<
    Row(<<"x">>, 1, 1, 1, 1, <<1>>, 1),
    Row(Cell(2023, 7, 3), 10000, 10250, 9950, 10100, <<12345678>>, 125),
    Row(Cell(2023, 7, 4), 10100, 10300, 10050, 10201, <<>>, 100),
    Row(Cell(2024, 2, 29), 14900, 15100, 14800, 15000, <<7>>, -50) >>

RowsH == <<
    Row(Cell(2023, 7, 3), 340, 355, 338, 350, <<5000>>, 294),
    Row(Cell(2023, 7, 5), 350, 362, 349, 360, <<6100>>, 286) >>

TsmFiles ==
    {MissingFile,
     [MissingFile EXCEPT !.exists = TRUE],
     CsvFile("float64", RowsA),
     CsvFile("float64", RowsB),
     CsvFile("object", RowsA)}

HonHaiFiles == {MissingFile, CsvFile("float64", RowsH)}

Stores ==
    {[f \in FileNames |->
         IF f = "TSM_TSMC.csv" THEN tsm
         ELSE IF f = "HNHPF_Hon Hai.csv" THEN hh
         ELSE MissingFile] : tsm \in TsmFiles, hh \in HonHaiFiles}

Sp == <<" ">>

SymbolTokens == {<<"2", "3", "3", "0">>, <<"2", "3", "1", "7">>, <<"9", "9", "9", "9">>}

Y(n) == Str(n)

Slash(parts) == Join(parts, <<"/">>)

DateTokens ==
    {Y(2023), Y(2025), <<"2", "0", "x", "3">>,
     Slash(<<Y(2023), Y(7)>>), Slash(<<Y(2023), <<"0", "7">> >>),
     Slash(<<Y(2024), Y(7)>>), Slash(<<Y(2023), <<"x">> >>),
     Slash(<<Y(2023), <<>> >>),
     Slash(<<Y(2023), Y(7), Y(3)>>), Slash(<<Y(2023), <<"0", "7">>, <<"0", "3">> >>),
     Slash(<<Y(2023), Y(7), Y(4)>>), Slash(<<Y(2023), Y(7), Y(5)>>),
     Slash(<<Y(2023), Y(2), Y(30)>>), Slash(<<Y(2023), Y(7), <<"x">> >>),
     Slash(<<Y(23), Y(7), Y(3)>>),
     Slash(<<Y(2023), Y(7), Y(3), Y(1)>>)}

LongText == [i \in 1..MaxMsgLen |-> "a"]

Messages ==
    {cmd \o Sp \o s \o Sp \o d :
        cmd \in {CmdQuery, CmdChart}, s \in SymbolTokens, d \in DateTokens}
    \cup {cmd : cmd \in {CmdQuery, CmdChart}}
    \cup {cmd \o Sp \o s : cmd \in {CmdQuery, CmdChart}, s \in SymbolTokens}
    \cup {<<"u3000">> \o CmdQuery \o <<" ", " ">> \o <<"2", "3", "3", "0">>
              \o <<"u3000">> \o Y(2023) \o <<" ">>,
          <<"h", "i">>, <<>>, LongText,
          CmdQuery \o Sp \o <<"9", "9", "9", "9">> \o LongText \o Sp \o Y(2023)}

ConcMessages ==
    {CmdChart \o Sp \o <<"2", "3", "3", "0">> \o Sp \o Y(2023),
     CmdChart \o Sp \o <<"2", "3", "3", "0">> \o Sp \o Slash(<<Y(2023), Y(7)>>),
     CmdChart \o Sp \o <<"2", "3", "1", "7">> \o Sp \o Y(2023),
     CmdQuery \o Sp \o <<"2", "3", "3", "0">> \o Sp \o Y(2023),
     <<"h", "i">>}

----------------------------------------------------------------------------
(* the specifications *)

Init ==
    /\ stock_data \in Stores
    /\ pc = [r \in Reqs |-> "idle"]
    /\ event = [r \in Reqs |-> <<>>]
    /\ reply_text = [r \in Reqs |-> None]
    /\ df_filtered = [r \in Reqs |-> <<>>]
    /\ period_text = [r \in Reqs |-> <<>>]
    /\ caught = [r \in Reqs |-> ""]
    /\ escaped = [r \in Reqs |-> ""]
    /\ sent = [r \in Reqs |-> <<>>]
    /\ calls = [r \in Reqs |-> 0]
    /\ figs = <<>>
    /\ static = {}

Step(r, texts) ==
    \/ \E text \in texts : callback(r, text)
    \/ HandleQuery(r)
    \/ HandleChart(r)
    \/ HandleEcho(r)
    \/ PltFigure(r)
    \/ PltPlot(r)
    \/ PltSavefig(r)
    \/ PltSavefigFails(r)
    \/ PltClose(r)
    \/ ImageReply(r)
    \/ TextReply(r)

\* one request at a time
Next == Step(1, Messages)

Spec == Init /\ [][Next]_vars

\* two requests handled by two threads of the server
NextConc == \E r \in Reqs : Step(r, ConcMessages)

SpecConc == Init /\ [][NextConc]_vars

----------------------------------------------------------------------------
(* the properties *)

Parts(r) == Words(Msg(r))

IsQuery(r) == StartsWith(Msg(r), CmdQuery)

IsChart(r) == ~IsQuery(r) /\ StartsWith(Msg(r), CmdChart)

\* the message has a symbol token and a date argument
HasArgs(r) == Len(Parts(r)) >= 3

DateParts(r) == Split(Parts(r)[3], "/")

\* handle_message returned after a reply call that succeeded
Replied(r) == pc[r] = "done"

LastSent(r) == sent[r][Len(sent[r])]

\* the branch of the command has run and left its text
Handled(r) == pc[r] \in {"text_reply", "done", "raised"}

Loaded(r) == load_stock_data(Symbol(r))

WarningMarkers == {MarkWarn, MarkBang, MarkCross}

StartsWithMarker(text) == \E mk \in WarningMarkers : StartsWith(text, mk)

UpperChars == <<"A", "B", "C", "D", "E", "F", "G", "H", "I", "J", "K", "L", "M",
                "N", "O", "P", "Q", "R", "S", "T", "U", "V", "W", "X", "Y", "Z">>

LowerChars == <<"a", "b", "c", "d", "e", "f", "g", "h", "i", "j", "k", "l", "m",
                "n", "o", "p", "q", "r", "s", "t", "u", "v", "w", "x", "y", "z">>

LowerChar(c) ==
    IF \E i \in 1..26 : UpperChars[i] = c
    THEN LowerChars[CHOOSE i \in 1..26 : UpperChars[i] = c]
    ELSE c

Lower(s) == [i \in 1..Len(s) |-> LowerChar(s[i])]

\* a token that matches a key of the symbol table, letter case ignored
Resolves(token) == \E k \in SymbolKeys : Lower(k) = Lower(token)

\* year/month/day tokens that spell a calendar date
WellFormedDate(p) ==
    /\ Len(p) = 3
    /\ \A i \in 1..3 : AllDigits(p[i])
    /\ Len(p[1]) = 4 /\ Len(p[2]) <= 2 /\ Len(p[3]) <= 2
    /\ ValidDate(DigitsValue(p[1]), DigitsValue(p[2]), DigitsValue(p[3]))

TokenDate(p) == <<DigitsValue(p[1]), DigitsValue(p[2]), DigitsValue(p[3])>>

\* the positions of the loaded records of a date
RowsOn(rows, d) == {i \in 1..Len(rows) : rows[i].Date = d}

\* the positions of the loaded records of a year, or of a year and month
RowsIn(rows, p) ==
    {i \in 1..Len(rows) :
        /\ rows[i].Date[1] = DigitsValue(p[1])
        /\ Len(p) = 2 => rows[i].Date[2] = DigitsValue(p[2])}

RECURSIVE CloseSum(_, _)
CloseSum(rows, idx) ==
    IF idx = {} THEN 0
    ELSE LET i == CHOOSE j \in idx : TRUE
         IN  rows[i].Close + CloseSum(rows, idx \ {i})

\* a known symbol whose file loads with a numeric Close column
GoodData(r) ==
    /\ Symbol(r) \in SymbolKeys
    /\ Loaded(r).err = <<>>
    /\ Loaded(r).df.close_dtype = "float64"

\* C1: a 查詢 or 查圖 message that names a symbol outside symbol_map, with any
\* date argument, is answered by one text reply reporting the unknown symbol,
\* and no exception of parsing or lookup leaves handle_message.
C1_UnknownSymbolReply ==
    \A r \in Reqs :
        (Handled(r) /\ (IsQuery(r) \/ IsChart(r)) /\ HasArgs(r)
            /\ Symbol(r) \notin SymbolKeys)
        => /\ reply_text[r] = TxtSymbolError \o Symbol(r)
           /\ escaped[r] \in {"", "ApiException"}
           /\ Replied(r) => LastSent(r) = [text |-> TxtSymbolError \o Symbol(r),
                                           image |-> <<>>]

\* C2: every failure raised while parsing the command or looking up data is
\* caught inside handle_message and becomes a reply text that starts with a
\* warning marker; none of them leaves handle_message (only an exception of
\* the reply call itself can).
C2_FailuresCaught ==
    \A r \in Reqs :
        /\ escaped[r] \in {"", "ApiException"}
        /\ (Handled(r) /\ caught[r] # "") => StartsWithMarker(reply_text[r])
        /\ (Handled(r) /\ (IsQuery(r) \/ IsChart(r)) /\ ~HasArgs(r))
            => StartsWithMarker(reply_text[r])
        /\ (Handled(r) /\ (IsQuery(r) \/ IsChart(r)) /\ HasArgs(r)
                /\ Symbol(r) \in SymbolKeys /\ Loaded(r).err # <<>>)
            => StartsWithMarker(reply_text[r])
        /\ (Replied(r) /\ caught[r] # "")
            => /\ StartsWithMarker(LastSent(r).text)
               /\ LastSent(r).image = <<>>

\* a query for 30 February, or one with a non-numeric part, was answered
C2_Witness ==
    \E r \in Reqs :
        /\ Replied(r) /\ IsQuery(r) /\ HasArgs(r)
        /\ caught[r] = "ValueError"
        /\ Len(DateParts(r)) = 3 /\ \A i \in 1..3 : AllDigits(DateParts(r)[i])
        /\ LastSent(r).text = TxtQueryError

\* C3: along every path of handle_message the reply API is called exactly
\* once with the event's reply token: never twice, and once when it returns.
C3_ExactlyOneReplyCall ==
    \A r \in Reqs :
        /\ calls[r] <= 1
        /\ pc[r] \in {"done", "raised"} => calls[r] = 1

\* C4: the image a chart reply refers to holds exactly the close-price series
\* of the request's own symbol and period, however two requests interleave.
C4_OwnChart ==
    \A r \in Reqs :
        (Replied(r) /\ LastSent(r).image # <<>>)
        => \E f \in static :
              /\ f.path = LastSent(r).image
              /\ f.lines = <<Series(df_filtered[r])>>

\* C5: a point lookup of a known symbol for a date present in its loaded
\* records is answered with the close of that date, with 2 fraction digits.
C5_PointLookup ==
    \A r \in Reqs :
        (Replied(r) /\ IsQuery(r) /\ HasArgs(r) /\ GoodData(r)
            /\ WellFormedDate(DateParts(r))
            /\ RowsOn(Loaded(r).df.rows, TokenDate(DateParts(r))) # {})
        => LET rows == Loaded(r).df.rows
               i == Min(RowsOn(rows, TokenDate(DateParts(r))))
           IN  Contains(LastSent(r).text,
                        TxtClose \o Fmt2(rows[i].Close) \o TxtYuanNl)

\* C6: an average query over a year, or a year and month, answers the
\* arithmetic mean of the closes of exactly the records of that period, to the
\* nearest hundredth; over an empty period it answers "no data", with no mean.
C6_Average ==
    \A r \in Reqs :
        (Replied(r) /\ IsQuery(r) /\ HasArgs(r) /\ GoodData(r)
            /\ Len(DateParts(r)) \in {1, 2}
            /\ \A i \in 1..Len(DateParts(r)) : AllDigits(DateParts(r)[i]))
        => LET rows == Loaded(r).df.rows
               idx == RowsIn(rows, DateParts(r))
               n == Cardinality(idx)
               s == CloseSum(rows, idx)
               text == LastSent(r).text
           IN  IF n = 0
               THEN /\ StartsWith(text, TxtWarnSp \o Symbol(r) \o TxtAt)
                    /\ Contains(text, TxtNoData)
                    /\ ~Contains(text, TxtAvgClose)
                    /\ ~Contains(text, <<"n", "a", "n">>)
               ELSE \E c \in (s \div n)..((s \div n) + 1) :
                       /\ 2 * Abs(c * n - s) <= n
                       /\ Contains(text, TxtAvgClose \o Fmt2(c) \o TxtAvgChange)

\* a month of one year was averaged while the same month of another year has
\* records too
C6_Witness ==
    \E r \in Reqs :
        /\ Replied(r) /\ IsQuery(r) /\ HasArgs(r) /\ GoodData(r)
        /\ Len(DateParts(r)) = 2
        /\ \A i \in 1..2 : AllDigits(DateParts(r)[i])
        /\ Contains(LastSent(r).text, TxtAvgClose)
        /\ \E i \in 1..Len(Loaded(r).df.rows) :
              /\ Loaded(r).df.rows[i].Date[2] = DigitsValue(DateParts(r)[2])
              /\ Loaded(r).df.rows[i].Date[1] # DigitsValue(DateParts(r)[1])

\* C7: the text of every reply sent is at most the message-size ceiling.
C7_ReplyWithinCeiling ==
    \A r \in Reqs :
        \A i \in 1..Len(sent[r]) : Len(sent[r][i].text) <= MaxReplyLen

\* C8: the symbol token is matched against the symbol table with letter case
\* ignored, and a token that does not resolve is answered by the "symbol not
\* found" error, which lists the valid symbol names.
C8_NotFoundListsNames ==
    \A r \in Reqs :
        (Handled(r) /\ (IsQuery(r) \/ IsChart(r)) /\ HasArgs(r))
        => IF Resolves(Symbol(r))
           THEN ~StartsWith(reply_text[r], TxtSymbolError)
           ELSE /\ StartsWith(reply_text[r], TxtSymbolError)
                /\ \A k \in SymbolKeys : Contains(reply_text[r], k)

\* C9: a point lookup of a known symbol for a well-formed date without a
\* record answers "no data for that date" and shows no other record's values.
C9_ExactPolicy ==
    \A r \in Reqs :
        (Replied(r) /\ IsQuery(r) /\ HasArgs(r)
            /\ Symbol(r) \in SymbolKeys /\ Loaded(r).err = <<>>
            /\ WellFormedDate(DateParts(r))
            /\ RowsOn(Loaded(r).df.rows, TokenDate(DateParts(r))) = {})
        => LET rows == Loaded(r).df.rows
               text == LastSent(r).text
           IN  /\ text = TxtWarnSp \o Symbol(r) \o TxtAt
                            \o DateStr(TokenDate(DateParts(r))) \o TxtNoDataDay
               /\ \A i \in 1..Len(rows) :
                     /\ ~Contains(text, TxtClose \o Fmt2(rows[i].Close))
                     /\ ~Contains(text, DateStr(rows[i].Date))

\* a lookup for a date without a record, the day after one that has a record
C9_Witness ==
    \E r \in Reqs :
        /\ Replied(r) /\ IsQuery(r) /\ HasArgs(r)
        /\ Symbol(r) \in SymbolKeys /\ Loaded(r).err = <<>>
        /\ WellFormedDate(DateParts(r))
        /\ RowsOn(Loaded(r).df.rows, TokenDate(DateParts(r))) = {}
        /\ \E i \in 1..Len(Loaded(r).df.rows) :
              /\ Loaded(r).df.rows[i].Date # TokenDate(DateParts(r))
              /\ Before(Loaded(r).df.rows[i].Date, TokenDate(DateParts(r)))
        /\ Contains(LastSent(r).text, TxtNoDataDay)

\* C10: a 查圖 command for a known symbol whose data loads, with three or more
\* '/'-separated date parts, is answered with the chart format error.
C10_ChartFormatError ==
    \A r \in Reqs :
        (Replied(r) /\ IsChart(r) /\ HasArgs(r)
            /\ Symbol(r) \in SymbolKeys /\ Loaded(r).err = <<>>
            /\ Len(DateParts(r)) >= 3)
        => LastSent(r).text = TxtChartFormat

====
